---- MODULE Spec2Model ----
(***************************************************************************)
(* Lifecycle engine of the Artifactory repository resource                 *)
(* (package repository: MkRepoCreate, MkRepoRead, MkRepoUpdate, DeleteRepo, *)
(* the project attach/detach helpers and the importer registered by        *)
(* MkResourceSchema).                                                      *)
(*                                                                         *)
(* One lifecycle call runs at a time.  A call is split at its network      *)
(* requests: every request is one step whose outcome the remote server     *)
(* (and the transport client) choose.  The variable pc is the position of  *)
(* the running handler; a handler that has started always runs to its      *)
(* return before the next call starts.                                     *)
(***************************************************************************)
EXTENDS Integers, Sequences, FiniteSets, TLC

VARIABLES
    id,       \* d.Id(): the local resource identity ("" = unset)
    pc,       \* position of the running handler, "idle" between calls
    op,       \* the lifecycle operation that runs / ran last
    pre,      \* d.Id() of the ResourceData the call was entered with
    args,     \* what unpack(d) and d.GetChange gave the running call
    attempt,  \* number of the pending attempt of the main write
    trace,    \* what the running / last call did, in order
    result,   \* the diagnostics the last call returned
    defaultRepoLayoutMap, \* the package-level table of default layouts
    remote,   \* the payloads the remote server stores, by repository key
    data      \* the fields of d, where SpecRoundTrip follows them

vars == <<id, pc, op, pre, args, attempt, trace, result, defaultRepoLayoutMap,
          remote, data>>

----------------------------------------------------------------------------
(* Bounds *)

\* retry count configured on the transport client (retries after the first
\* attempt of a request that carries a retry condition)
RetryCount == 2

----------------------------------------------------------------------------
(* Values *)

defaultProjectKey == "default"

RepositoriesEndpoint == "artifactory/api/repositories/{key}"
AttachEndpoint == "access/api/v1/projects/_/attach/repositories/{repoKey}/{projectKey}"
DetachEndpoint == "access/api/v1/projects/_/attach/repositories/{repoKey}"

StatusBadRequest == 400
StatusNotFound == 404

\* repository keys a declaration can carry
Keys == {"k1", "k2"}

\* values of the project_key field, old or new
ProjectKeys == {"", defaultProjectKey, "teamA", "teamB"}

\* What one request gives back: resp, err of the resty call.
\*   err    - the call returned a non-nil error
\*   resp   - the call returned a non-nil response
\*   status - resp.StatusCode() (0 without a response)
\*   merge  - the response body reports the merge conflict
\*            (client.RetryOnMergeError holds)
Outcomes ==
    {[err |-> FALSE, resp |-> TRUE, status |-> 200, merge |-> FALSE]}
    \cup {[err |-> TRUE, resp |-> TRUE, status |-> s, merge |-> m] :
            s \in {StatusBadRequest, StatusNotFound, 500},
            m \in BOOLEAN}
    \cup {[err |-> TRUE, resp |-> FALSE, status |-> 0, merge |-> FALSE]}

\* Diagnostics.  diag.FromErr(nil) is the empty diagnostics; diag.FromErr(err)
\* carries the error of the request unchanged.
Diag(kind, resp, status, merge) ==
    [kind |-> kind, resp |-> resp, status |-> status, merge |-> merge]
NoErr == Diag("nil", FALSE, 0, FALSE)
Running == Diag("running", FALSE, 0, FALSE)
UnpackErr == Diag("unpack", FALSE, 0, FALSE)
PackErr == Diag("pack", FALSE, 0, FALSE)
ConstructErr == Diag("construct", FALSE, 0, FALSE)
ErrOf(out) == Diag("request", out.resp, out.status, out.merge)
FromErr(out) == IF out.err THEN ErrOf(out) ELSE NoErr

\* The payload unpack builds from a declaration, and its key.
Repo(key, projectKey) == [key |-> key, projectKey |-> projectKey]
NoRepo == Repo("", "")
NoArgs == [uerr |-> FALSE, key |-> "", repo |-> NoRepo, old |-> "", new |-> ""]
UnpackFailed == [NoArgs EXCEPT !.uerr = TRUE]

\* Versions the connected server can report, <<major, minor, patch>>, and one
\* string that is no version.
InvalidVersion == <<>>
Versions ==
    {<<6, 99, 9>>, <<7, 49, 8>>, <<7, 53, 0>>, <<7, 53, 1>>, <<7, 53, 2>>,
     <<7, 54, 0>>, <<8, 0, 0>>, InvalidVersion}

CustomProjectEnvironmentSupportedVersion == <<7, 53, 1>>

ProjectEnvironmentsSupported == {"DEV", "PROD"}

\* MaxItems of project_environments
MaxItems == 2

\* values of project_environments: the two built-in and two custom ones;
\* the empty set is the field left unset
Environments == {"DEV", "PROD", "QA", "STAGE"}
EnvironmentSets == {S \in SUBSET Environments : Cardinality(S) <= MaxItems}

DiffArgs(version, envs) ==
    [uerr |-> FALSE, key |-> "", repo |-> NoRepo, old |-> "", new |-> "",
     version |-> version, envs |-> envs]

VersionErr == Diag("Failed to check version", FALSE, 0, FALSE)
OnlyOneEnvironmentErr == Diag("only one environment can be assigned", FALSE, 0, FALSE)
NotAllowedErr == Diag("project_environment not allowed", FALSE, 0, FALSE)

\* The static table of default layouts: package type -> SupportedRepoClasses
\* (RepoLayoutRef and SupportedRepoTypes, a map repository type -> bool).
\* It has a package type every repository type supports, two that some
\* repository types lack, and one entry marked false.
RepoLayoutTable ==
    [maven   |-> [RepoLayoutRef |-> "maven-2-default",
                  SupportedRepoTypes |->
                      [local |-> TRUE, remote |-> TRUE,
                       virtual |-> TRUE, federated |-> TRUE]],
     generic |-> [RepoLayoutRef |-> "simple-default",
                  SupportedRepoTypes |->
                      [local |-> TRUE, remote |-> TRUE,
                       virtual |-> TRUE, federated |-> TRUE]],
     p2      |-> [RepoLayoutRef |-> "simple-default",
                  SupportedRepoTypes |->
                      [local |-> FALSE, remote |-> TRUE, virtual |-> TRUE]],
     vcs     |-> [RepoLayoutRef |-> "vcs-default",
                  SupportedRepoTypes |-> [remote |-> TRUE]]]

\* the zero value of SupportedRepoClasses (a nil map has no key)
ZeroSupportedRepoClasses == [RepoLayoutRef |-> "", SupportedRepoTypes |-> <<>>]

\* inputs of GetDefaultRepoLayoutRef: the keys of the table and one value
\* that is no key
RepositoryTypes == {"local", "remote", "virtual", "federated", "other"}
PackageTypes == {"maven", "generic", "p2", "vcs", "other"}

LayoutArgs(repositoryType, packageType) ==
    [uerr |-> FALSE, key |-> "", repo |-> NoRepo, old |-> "", new |-> "",
     repositoryType |-> repositoryType, packageType |-> packageType]

\* fmt.Errorf("default repo layout not found for repository type %v &
\* package type %v", repositoryType, packageType)
LayoutNotFoundErr(repositoryType, packageType) ==
    [kind |-> "default repo layout not found", resp |-> FALSE, status |-> 0,
     merge |-> FALSE, names |-> <<repositoryType, packageType>>]

\* Entries of trace.
Event(method, url, params, body, out, ret) ==
    [method |-> method, url |-> url, params |-> params,
     body |-> body, out |-> out, ret |-> ret]
Request(method, url, params, body, out) ==
    Event(method, url, params, body, <<out>>, <<>>)
SetIdEvent(key) == Event("SetId", "", {<<"id", key>>}, <<>>, <<>>, <<>>)
ReadEvent == Event("Read", "", {}, <<>>, <<>>, <<>>)
PackEvent == Event("Pack", "", {}, <<>>, <<>>, <<>>)
ReadReturn(diags) == Event("ReadReturn", "", {}, <<>>, <<>>, <<diags>>)
ExistsReturn(found, diags) ==
    Event("ExistsReturn", "", {}, <<>>, <<>>, <<found, diags>>)
LayoutReturn(value, err) ==
    Event("LayoutReturn", "", {}, <<>>, <<>>, <<value, err>>)

----------------------------------------------------------------------------
(* The engine's side of the lifecycle contract *)

Init ==
    /\ id = ""
    /\ pc = "idle"
    /\ op = "none"
    /\ pre = ""
    /\ args = NoArgs
    /\ attempt = 0
    /\ trace = <<>>
    /\ result = NoErr
    /\ defaultRepoLayoutMap = RepoLayoutTable
    /\ remote = <<>>
    /\ data = <<>>

\* The resource is in the engine's state: Read, Update and Delete are called
\* on such a resource only, Create and Import only on one that is not.
\* A Delete that returned no error removes the resource from the state.
InState == id # "" /\ ~(op = "Delete" /\ result = NoErr)

----------------------------------------------------------------------------
(* Decisions of the handlers *)

\* unpack of the generic local repository: the payload and its key
Unpack(key, project_key) ==
    [repo |-> Repo(key, project_key), key |-> key]

NeedsRetryNever(out, n) == FALSE

NeedsRetryUnbounded(out, n) == out.merge

\* The retry condition added to the main writes: the attempt is repeated
\* when the response reports a merge conflict and retries are left.
NeedsRetry(out, n) == out.merge /\ n <= RetryCount

CreateUnpackedErrorIgnored(uerr) ==
    [pc |-> "write", result |-> Running]

CreateRequestWithoutBody(key, repo, out) ==
    Request("PUT", RepositoriesEndpoint, {<<"key", key>>}, <<>>, out)

\* the PUT of MkRepoCreate: SetBody(repo), SetPathParam("key", key)
CreateRequest(key, repo, out) ==
    Request("PUT", RepositoriesEndpoint, {<<"key", key>>}, <<repo>>, out)

\* MkRepoCreate after unpack: an unpack error is returned at once.
CreateUnpacked(uerr) ==
    IF uerr THEN [pc |-> "idle", result |-> UnpackErr]
    ELSE [pc |-> "write", result |-> Running]

CreateAfterPutReadFirst(out, key, cur, tr) ==
    IF out.err
    THEN [id |-> cur, pc |-> "idle", result |-> ErrOf(out), trace |-> tr]
    ELSE [id |-> key, pc |-> "read", result |-> Running,
          trace |-> tr \o <<ReadEvent, SetIdEvent(key)>>]

CreateAfterPutSetIdFirst(out, key, cur, tr) ==
    IF out.err
    THEN [id |-> key, pc |-> "idle", result |-> ErrOf(out),
          trace |-> tr \o <<SetIdEvent(key)>>]
    ELSE [id |-> key, pc |-> "read", result |-> Running,
          trace |-> tr \o <<SetIdEvent(key), ReadEvent>>]

CreateAfterPutAssigns(out, key, cur, tr) ==
    IF out.err
    THEN [id |-> cur, pc |-> "idle", result |-> ErrOf(out), trace |-> tr]
    ELSE [id |-> key, pc |-> "attach", result |-> Running,
          trace |-> tr \o <<SetIdEvent(key)>>]

\* MkRepoCreate after the PUT: the error is returned, or the identity is set
\* and read is invoked.
CreateAfterPut(out, key, cur, tr) ==
    IF out.err
    THEN [id |-> cur, pc |-> "idle", result |-> ErrOf(out), trace |-> tr]
    ELSE [id |-> key, pc |-> "read", result |-> Running,
          trace |-> tr \o <<SetIdEvent(key), ReadEvent>>]

ReadAbsentOnly404(out) ==
    out.resp /\ out.status = StatusNotFound

ReadAbsentAnyStatus(out) ==
    out.resp

\* MkRepoRead: resp != nil && (status == 400 || status == 404)
ReadAbsent(out) ==
    out.resp /\ (out.status = StatusBadRequest \/ out.status = StatusNotFound)

\* MkRepoRead, from construct() to its return.
ReadBody(cerr, out, perr, cur, tr) ==
    IF cerr
    THEN [id |-> cur, result |-> ConstructErr,
          trace |-> tr \o <<ReadReturn(ConstructErr)>>]
    ELSE LET get == Request("GET", RepositoriesEndpoint, {<<"key", cur>>},
                            <<>>, out)
         IN  IF out.err
             THEN IF ReadAbsent(out)
                  THEN [id |-> "", result |-> NoErr,
                        trace |-> tr \o <<get, SetIdEvent(""), ReadReturn(NoErr)>>]
                  ELSE [id |-> cur, result |-> ErrOf(out),
                        trace |-> tr \o <<get, ReadReturn(ErrOf(out))>>]
             ELSE LET diags == IF perr THEN PackErr ELSE NoErr
                  IN  [id |-> cur, result |-> diags,
                       trace |-> tr \o <<get, PackEvent, ReadReturn(diags)>>]

\* MkRepoUpdate after unpack.
UpdateUnpacked(uerr) ==
    IF uerr THEN [pc |-> "idle", result |-> UnpackErr]
    ELSE [pc |-> "write", result |-> Running]

projectKeyChangedAlways(old, new) == TRUE

\* d.HasChange("project_key")
projectKeyChanged(old, new) == old # new

assignToProjectFromProject(oldProjectKey, newProjectKey) ==
    oldProjectKey # defaultProjectKey /\ newProjectKey # ""

unassignFromProjectToEmpty(oldProjectKey, newProjectKey) ==
    oldProjectKey # "" /\ newProjectKey = ""

\* len(s) > 0 of a string s is written s # ""
assignToProject(oldProjectKey, newProjectKey) ==
    oldProjectKey = defaultProjectKey /\ newProjectKey # ""

unassignFromProject(oldProjectKey, newProjectKey) ==
    oldProjectKey # "" /\ newProjectKey = defaultProjectKey

\* MkRepoUpdate after d.SetId(key): the request that follows the POST.
ProjectCall(old, new) ==
    IF projectKeyChanged(old, new)
    THEN IF assignToProject(old, new) THEN "attach"
         ELSE IF unassignFromProject(old, new) THEN "detach"
         ELSE "read"
    ELSE "read"

\* MkRepoUpdate after the POST.
UpdateAfterPost(out, key, cur, old, new, tr) ==
    IF out.err
    THEN [id |-> cur, pc |-> "idle", result |-> ErrOf(out), trace |-> tr]
    ELSE LET next == ProjectCall(old, new)
         IN  [id |-> key, pc |-> next, result |-> Running,
              trace |-> tr \o <<SetIdEvent(key)>>
                          \o (IF next = "read" THEN <<ReadEvent>> ELSE <<>>)]

UpdateAfterProjectErrorIgnored(out, tr) ==
    [pc |-> "read", result |-> Running, trace |-> tr \o <<ReadEvent>>]

\* MkRepoUpdate after assignRepoToProject / unassignRepoFromProject.
UpdateAfterProject(out, tr) ==
    IF out.err
    THEN [pc |-> "idle", result |-> ErrOf(out), trace |-> tr]
    ELSE [pc |-> "read", result |-> Running, trace |-> tr \o <<ReadEvent>>]

DeleteAbsentOnly404(out) ==
    out.resp /\ out.status = StatusNotFound

\* DeleteRepo: resp != nil && (status == 400 || status == 404)
DeleteAbsent(out) ==
    out.resp /\ (out.status = StatusBadRequest \/ out.status = StatusNotFound)

\* DeleteRepo after the DELETE.
DeleteAfter(out, cur, tr) ==
    IF out.err /\ DeleteAbsent(out)
    THEN [id |-> "", result |-> NoErr, trace |-> tr \o <<SetIdEvent("")>>]
    ELSE [id |-> cur, result |-> FromErr(out), trace |-> tr]

\* Retry400: response.StatusCode() == 400
Retry400(out) == out.status = StatusBadRequest

\* The retry condition repoExists adds to the HEAD of CheckRepo.
ExistsNeedsRetry(out, n) == Retry400(out) /\ n <= RetryCount

RepoExistsAbsentIsNoError(out) ==
    IF out.err /\ out.resp /\ out.status \in {StatusBadRequest, StatusNotFound}
    THEN [found |-> FALSE, result |-> NoErr]
    ELSE [found |-> ~out.err, result |-> FromErr(out)]

\* repoExists: return err == nil, err
RepoExistsReturn(out) ==
    [found |-> ~out.err, result |-> FromErr(out)]

\* utilsdk.CheckVersion(version, supported): version >= supported, or an
\* error for a string that is no version
VersionAtLeast(v, w) ==
    \/ v[1] > w[1]
    \/ v[1] = w[1] /\ v[2] > w[2]
    \/ v[1] = w[1] /\ v[2] = w[2] /\ v[3] >= w[3]

CheckVersion(v, w) ==
    IF v = InvalidVersion THEN [isSupported |-> FALSE, err |-> TRUE]
    ELSE [isSupported |-> VersionAtLeast(v, w), err |-> FALSE]

EnvironmentsRuleOneEnvironmentOnly(isSupported, envs) ==
    IF Cardinality(envs) = 2 THEN OnlyOneEnvironmentErr ELSE NoErr

EnvironmentsRuleAllowListOnly(isSupported, envs) ==
    IF \E e \in envs : e \notin ProjectEnvironmentsSupported
    THEN NotAllowedErr
    ELSE NoErr

\* ProjectEnvironmentsDiff, the two branches on isSupported
EnvironmentsRule(isSupported, envs) ==
    IF isSupported
    THEN IF Cardinality(envs) = 2 THEN OnlyOneEnvironmentErr ELSE NoErr
    ELSE IF \E e \in envs : e \notin ProjectEnvironmentsSupported
         THEN NotAllowedErr
         ELSE NoErr

\* ProjectEnvironmentsDiff; diff.GetOk is not ok for the empty set
ProjectEnvironmentsDiff(version, envs) ==
    IF envs = {} THEN NoErr
    ELSE LET c == CheckVersion(version, CustomProjectEnvironmentSupportedVersion)
         IN  IF c.err THEN VersionErr
             ELSE EnvironmentsRule(c.isSupported, envs)

\* m[k] of a Go map: the value and ok, the zero value for a missing key
MapIndex(m, k, zero) ==
    IF k \in DOMAIN m THEN [v |-> m[k], ok |-> TRUE]
    ELSE [v |-> zero, ok |-> FALSE]

GetDefaultRepoLayoutRefIgnoresMark(table, repositoryType, packageType) ==
    LET entry == MapIndex(table, packageType, ZeroSupportedRepoClasses).v
        s == MapIndex(entry.SupportedRepoTypes, repositoryType, FALSE)
    IN  IF s.ok
        THEN [value |-> entry.RepoLayoutRef, err |-> NoErr]
        ELSE [value |-> "",
              err |-> LayoutNotFoundErr(repositoryType, packageType)]

\* the function GetDefaultRepoLayoutRef(repositoryType, packageType) returns
GetDefaultRepoLayoutRef(table, repositoryType, packageType) ==
    LET entry == MapIndex(table, packageType, ZeroSupportedRepoClasses).v
        s == MapIndex(entry.SupportedRepoTypes, repositoryType, FALSE)
    IN  IF s.ok /\ s.v
        THEN [value |-> entry.RepoLayoutRef, err |-> NoErr]
        ELSE [value |-> "",
              err |-> LayoutNotFoundErr(repositoryType, packageType)]

----------------------------------------------------------------------------
(* The lifecycle operations, step by step *)

\* Create is entered with a new ResourceData (no identity) and a declaration.
Create(key, project_key, uerr) ==
    /\ pc = "idle"
    /\ ~InState
    /\ LET u == Unpack(key, project_key)
           r == CreateUnpacked(uerr)
       IN  /\ op' = "Create"
           /\ pre' = ""
           /\ id' = ""
           /\ args' = IF uerr THEN UnpackFailed
                      ELSE [uerr |-> FALSE, key |-> u.key, repo |-> u.repo,
                            old |-> "", new |-> project_key]
           /\ attempt' = IF r.pc = "write" THEN 1 ELSE 0
           /\ trace' = <<>>
           /\ pc' = r.pc
           /\ result' = r.result
    /\ UNCHANGED <<defaultRepoLayoutMap, remote, data>>

\* One attempt of the PUT of MkRepoCreate.
Put(out) ==
    /\ pc = "write"
    /\ op = "Create"
    /\ LET tr == Append(trace, CreateRequest(args.key, args.repo, out))
       IN  IF NeedsRetry(out, attempt)
           THEN /\ attempt' = attempt + 1
                /\ trace' = tr
                /\ UNCHANGED <<id, pc, result>>
           ELSE LET r == CreateAfterPut(out, args.key, id, tr)
                IN  /\ id' = r.id
                    /\ pc' = r.pc
                    /\ result' = r.result
                    /\ trace' = r.trace
                    /\ UNCHANGED attempt
    /\ UNCHANGED <<op, pre, args>>
    /\ UNCHANGED <<defaultRepoLayoutMap, remote, data>>

\* Read of a resource of the state.
Read ==
    /\ pc = "idle"
    /\ InState
    /\ op' = "Read"
    /\ pre' = id
    /\ args' = NoArgs
    /\ attempt' = 0
    /\ trace' = <<ReadEvent>>
    /\ pc' = "read"
    /\ result' = Running
    /\ UNCHANGED id
    /\ UNCHANGED <<defaultRepoLayoutMap, remote, data>>

ImportWithoutIdentity(key) ==
    /\ pc = "idle"
    /\ ~InState
    /\ op' = "Import"
    /\ pre' = key
    /\ args' = NoArgs
    /\ attempt' = 0
    /\ trace' = <<ReadEvent>>
    /\ pc' = "read"
    /\ result' = Running
    /\ UNCHANGED id
    /\ UNCHANGED <<defaultRepoLayoutMap, remote, data>>

\* Import: the importer passes the ResourceData through, which the engine
\* made with the supplied identity, and the engine reads it.
Import(key) ==
    /\ pc = "idle"
    /\ ~InState
    /\ op' = "Import"
    /\ pre' = key
    /\ id' = key
    /\ args' = NoArgs
    /\ attempt' = 0
    /\ trace' = <<ReadEvent>>
    /\ pc' = "read"
    /\ result' = Running
    /\ UNCHANGED <<defaultRepoLayoutMap, remote, data>>

\* The body of MkRepoRead, called by Read and Import and as the last step of
\* Create and Update.
Get(cerr, out, perr) ==
    /\ pc = "read"
    /\ LET r == ReadBody(cerr, out, perr, id, trace)
       IN  /\ id' = r.id
           /\ result' = r.result
           /\ trace' = r.trace
    /\ pc' = "idle"
    /\ UNCHANGED <<op, pre, args, attempt>>
    /\ UNCHANGED <<defaultRepoLayoutMap, remote, data>>

\* Update of a resource of the state; key is force-new, so the declaration
\* carries the key the resource was created with.
Update(old, new, uerr) ==
    /\ pc = "idle"
    /\ InState
    /\ LET u == Unpack(id, new)
           r == UpdateUnpacked(uerr)
       IN  /\ op' = "Update"
           /\ pre' = id
           /\ args' = IF uerr THEN UnpackFailed
                      ELSE [uerr |-> FALSE, key |-> u.key, repo |-> u.repo,
                            old |-> old, new |-> new]
           /\ attempt' = IF r.pc = "write" THEN 1 ELSE 0
           /\ trace' = <<>>
           /\ pc' = r.pc
           /\ result' = r.result
    /\ UNCHANGED id
    /\ UNCHANGED <<defaultRepoLayoutMap, remote, data>>

\* One attempt of the POST of MkRepoUpdate.
Post(out) ==
    /\ pc = "write"
    /\ op = "Update"
    /\ LET tr == Append(trace, Request("POST", RepositoriesEndpoint,
                                       {<<"key", id>>}, <<args.repo>>, out))
       IN  IF NeedsRetry(out, attempt)
           THEN /\ attempt' = attempt + 1
                /\ trace' = tr
                /\ UNCHANGED <<id, pc, result>>
           ELSE LET r == UpdateAfterPost(out, args.key, id, args.old, args.new, tr)
                IN  /\ id' = r.id
                    /\ pc' = r.pc
                    /\ result' = r.result
                    /\ trace' = r.trace
                    /\ UNCHANGED attempt
    /\ UNCHANGED <<op, pre, args>>
    /\ UNCHANGED <<defaultRepoLayoutMap, remote, data>>

\* assignRepoToProject(key, newProjectKey, client)
Attach(out) ==
    /\ pc = "attach"
    /\ LET tr == Append(trace, Request("PUT", AttachEndpoint,
                                       {<<"repoKey", args.key>>,
                                        <<"projectKey", args.new>>}, <<>>, out))
           r == UpdateAfterProject(out, tr)
       IN  /\ pc' = r.pc
           /\ result' = r.result
           /\ trace' = r.trace
    /\ UNCHANGED <<id, op, pre, args, attempt>>
    /\ UNCHANGED <<defaultRepoLayoutMap, remote, data>>

\* unassignRepoFromProject(key, client)
Detach(out) ==
    /\ pc = "detach"
    /\ LET tr == Append(trace, Request("DELETE", DetachEndpoint,
                                       {<<"repoKey", args.key>>}, <<>>, out))
           r == UpdateAfterProject(out, tr)
       IN  /\ pc' = r.pc
           /\ result' = r.result
           /\ trace' = r.trace
    /\ UNCHANGED <<id, op, pre, args, attempt>>
    /\ UNCHANGED <<defaultRepoLayoutMap, remote, data>>

\* Delete of a resource of the state.
Delete ==
    /\ pc = "idle"
    /\ InState
    /\ op' = "Delete"
    /\ pre' = id
    /\ args' = NoArgs
    /\ attempt' = 1
    /\ trace' = <<>>
    /\ pc' = "write"
    /\ result' = Running
    /\ UNCHANGED id
    /\ UNCHANGED <<defaultRepoLayoutMap, remote, data>>

\* One attempt of the DELETE of DeleteRepo.
DeleteRequest(out) ==
    /\ pc = "write"
    /\ op = "Delete"
    /\ LET tr == Append(trace, Request("DELETE", RepositoriesEndpoint,
                                       {<<"key", id>>}, <<>>, out))
       IN  IF NeedsRetry(out, attempt)
           THEN /\ attempt' = attempt + 1
                /\ trace' = tr
                /\ UNCHANGED <<id, pc, result>>
           ELSE LET r == DeleteAfter(out, id, tr)
                IN  /\ id' = r.id
                    /\ result' = r.result
                    /\ trace' = r.trace
                    /\ pc' = "idle"
                    /\ UNCHANGED attempt
    /\ UNCHANGED <<op, pre, args>>
    /\ UNCHANGED <<defaultRepoLayoutMap, remote, data>>

\* repoExists on a resource of the state.
Exists ==
    /\ pc = "idle"
    /\ InState
    /\ op' = "Exists"
    /\ pre' = id
    /\ args' = NoArgs
    /\ attempt' = 1
    /\ trace' = <<>>
    /\ pc' = "head"
    /\ result' = Running
    /\ UNCHANGED id
    /\ UNCHANGED <<defaultRepoLayoutMap, remote, data>>

\* One attempt of the HEAD of CheckRepo, and the return of repoExists.
HeadRequest(out) ==
    /\ pc = "head"
    /\ LET tr == Append(trace, Request("HEAD", RepositoriesEndpoint,
                                       {<<"key", id>>}, <<>>, out))
       IN  IF ExistsNeedsRetry(out, attempt)
           THEN /\ attempt' = attempt + 1
                /\ trace' = tr
                /\ UNCHANGED <<pc, result>>
           ELSE LET r == RepoExistsReturn(out)
                IN  /\ result' = r.result
                    /\ trace' = Append(tr, ExistsReturn(r.found, r.result))
                    /\ pc' = "idle"
                    /\ UNCHANGED attempt
    /\ UNCHANGED <<id, op, pre, args>>
    /\ UNCHANGED <<defaultRepoLayoutMap, remote, data>>

\* The CustomizeDiff hook, run on the planned declaration before a Create or
\* an Update; the diff of a resource that is not in the state has no identity.
Diff(version, envs) ==
    /\ pc = "idle"
    /\ op' = "Diff"
    /\ id' = (IF InState THEN id ELSE "")
    /\ pre' = id'
    /\ args' = DiffArgs(version, envs)
    /\ attempt' = 0
    /\ trace' = <<>>
    /\ pc' = "idle"
    /\ result' = ProjectEnvironmentsDiff(version, envs)
    /\ UNCHANGED <<defaultRepoLayoutMap, remote, data>>

\* The DefaultFunc of repo_layout_ref, called when the schema is evaluated.
DefaultRepoLayoutRef(repositoryType, packageType) ==
    /\ pc = "idle"
    /\ op' = "GetDefaultRepoLayoutRef"
    /\ id' = (IF InState THEN id ELSE "")
    /\ pre' = id'
    /\ args' = LayoutArgs(repositoryType, packageType)
    /\ attempt' = 0
    /\ LET r == GetDefaultRepoLayoutRef(defaultRepoLayoutMap,
                                        repositoryType, packageType)
       IN  /\ trace' = <<LayoutReturn(r.value, r.err)>>
           /\ result' = r.err
    /\ pc' = "idle"
    /\ UNCHANGED <<defaultRepoLayoutMap, remote, data>>

Next ==
    \/ \E key \in Keys, project_key \in ProjectKeys, uerr \in BOOLEAN :
          Create(key, project_key, uerr)
    \/ \E out \in Outcomes : Put(out)
    \/ Read
    \/ \E key \in Keys : Import(key)
    \/ \E cerr \in BOOLEAN, out \in Outcomes, perr \in BOOLEAN :
          Get(cerr, out, perr)
    \/ \E old \in ProjectKeys, new \in ProjectKeys, uerr \in BOOLEAN :
          Update(old, new, uerr)
    \/ \E out \in Outcomes : Post(out)
    \/ \E out \in Outcomes : Attach(out)
    \/ \E out \in Outcomes : Detach(out)
    \/ Delete
    \/ \E out \in Outcomes : DeleteRequest(out)
    \/ Exists
    \/ \E out \in Outcomes : HeadRequest(out)
    \/ \E version \in Versions, envs \in EnvironmentSets : Diff(version, envs)
    \/ \E repositoryType \in RepositoryTypes, packageType \in PackageTypes :
          DefaultRepoLayoutRef(repositoryType, packageType)

Spec == Init /\ [][Next]_vars

----------------------------------------------------------------------------
(* What a call did, read off trace *)

Done(o) == pc = "idle" /\ op = o

\* positions in trace of the requests with this method and endpoint
Requests(method, url) ==
    {i \in DOMAIN trace : trace[i].method = method /\ trace[i].url = url}

Events(method) == {i \in DOMAIN trace : trace[i].method = method}

Gets == Requests("GET", RepositoriesEndpoint)
Attaches == Requests("PUT", AttachEndpoint)
Detaches == Requests("DELETE", DetachEndpoint)
\* the attempts of the main write of Create and Update
Writes == Requests("PUT", RepositoriesEndpoint)
            \cup Requests("POST", RepositoriesEndpoint)
Deletes == Requests("DELETE", RepositoriesEndpoint)

OutAt(i) == trace[i].out[1]

Last(S) == CHOOSE i \in S : \A j \in S : j <= i

\* the request failed with a response of status 400 or 404
Failed400or404(out) ==
    out.err /\ out.resp /\ out.status \in {400, 404}

WriteSucceeded == \E i \in Writes : ~OutAt(i).err

\* the main write ended in an error that no retry followed
WriteFailed ==
    /\ pc = "idle"
    /\ Writes # {}
    /\ OutAt(Last(Writes)).err

----------------------------------------------------------------------------
(* Claims *)

\* C1: whenever the GET of Read fails with status 400 or with status 404,
\* Read sets the identity to empty, does not invoke Pack and returns no
\* error, in the same way for the two status codes.
C1_ReadAbsentClearsIdentity ==
    \A i \in Gets :
        Failed400or404(OutAt(i)) =>
            /\ pc = "idle"
            /\ id = ""
            /\ result = NoErr
            /\ Events("Pack") = {}
            /\ SubSeq(trace, i + 1, Len(trace))
                   = <<SetIdEvent(""), ReadReturn(NoErr)>>

C1_Witness ==
    /\ Done("Read")
    /\ pre # ""
    /\ id = ""
    /\ \E i \in Gets : OutAt(i).err /\ OutAt(i).status = 400

\* C2: an Update whose POST succeeds and whose project_key changes from
\* "default" to a non-empty P issues exactly one attach call, with the path
\* parameters repoKey = the repository key and projectKey = P, and no detach.
C2_AssignIssuesOneAttach ==
    (/\ Done("Update")
     /\ WriteSucceeded
     /\ args.old = defaultProjectKey
     /\ args.new \notin {"", defaultProjectKey})
    => /\ Cardinality(Attaches) = 1
       /\ \A i \in Attaches :
             trace[i].params = {<<"repoKey", pre>>, <<"projectKey", args.new>>}
       /\ Detaches = {}

C2_Witness ==
    /\ Done("Update")
    /\ WriteSucceeded
    /\ args.old = defaultProjectKey
    /\ args.new = "teamA"
    /\ Attaches # {}
    /\ result = NoErr

\* C3: an Update whose POST succeeds and whose project_key changes from a
\* non-empty, non-default value to "default" issues exactly one detach call,
\* with the single path parameter repoKey = the repository key, and no
\* attach.
C3_UnassignIssuesOneDetach ==
    (/\ Done("Update")
     /\ WriteSucceeded
     /\ args.old \notin {"", defaultProjectKey}
     /\ args.new = defaultProjectKey)
    => /\ Cardinality(Detaches) = 1
       /\ \A i \in Detaches : trace[i].params = {<<"repoKey", pre>>}
       /\ Attaches = {}

C3_Witness ==
    /\ Done("Update")
    /\ WriteSucceeded
    /\ args.old = "teamA"
    /\ args.new = defaultProjectKey
    /\ Detaches # {}
    /\ result = NoErr

\* C4: an Update whose project_key is unchanged, or changes between two
\* values neither of which is "default", issues neither an attach nor a
\* detach call; and no Update issues both.
C4_NoProjectCallOtherwise ==
    op = "Update" =>
        /\ (args.old = args.new
              \/ (args.old # defaultProjectKey /\ args.new # defaultProjectKey))
           => (Attaches = {} /\ Detaches = {})
        /\ ~(Attaches # {} /\ Detaches # {})

C4_Witness ==
    /\ Done("Update")
    /\ WriteSucceeded
    /\ args.old = "teamA"
    /\ args.new = "teamB"
    /\ Events("Read") # {}
    /\ Attaches = {}
    /\ Detaches = {}

\* C5 (as stated): the identity after every Update equals the identity before
\* it, and only Create changes the identity from unset to set.
C5_UpdateNeverMutatesIdentity ==
    /\ Done("Update") => id = pre
    /\ (pre = "" /\ id # "") => op = "Create"

\* C5 (amended): the identity after an Update equals the identity before it,
\* except that it is empty when the Read that ends the Update received
\* status 400 or 404; only Create changes the identity from unset to set.
C5_UpdateKeepsOrClearsIdentity ==
    /\ op = "Update" =>
          id = IF \E i \in Gets : Failed400or404(OutAt(i)) THEN "" ELSE pre
    /\ (pre = "" /\ id # "") => op = "Create"

C5_Witness ==
    /\ Done("Update")
    /\ pre # ""
    /\ id = ""
    /\ \E i \in Gets : OutAt(i).status = 404

\* C6: after every Delete that returns without error, the successful DELETE
\* included, the identity is empty.
C6_DeleteClearsIdentity ==
    (Done("Delete") /\ result = NoErr) => id = ""

\* C7: a DELETE that fails with status 400 or 404 makes Delete return no
\* error with the identity cleared; a DELETE that fails in any other way
\* makes Delete return that error with the identity unchanged.
C7_DeleteAbsentOrError ==
    (Done("Delete") /\ OutAt(Last(Deletes)).err) =>
        LET out == OutAt(Last(Deletes))
        IN  IF Failed400or404(out)
            THEN result = NoErr /\ id = ""
            ELSE result = ErrOf(out) /\ id = pre /\ id # ""

C7_Witness ==
    /\ Done("Delete")
    /\ OutAt(Last(Deletes)).err
    /\ OutAt(Last(Deletes)).status = 400
    /\ id = ""
    /\ pre # ""

\* C8: when Unpack returns an error, Create and Update return that error at
\* once, issue no request of any kind, retry nothing and leave the identity
\* unchanged.
C8_UnpackErrorStopsCall ==
    (op \in {"Create", "Update"} /\ args.uerr) =>
        /\ pc = "idle"
        /\ result = UnpackErr
        /\ trace = <<>>
        /\ attempt = 0
        /\ id = pre

C8_Witness ==
    /\ Done("Create")
    /\ args.uerr
    /\ result = UnpackErr

\* C9: in a Create whose Unpack and PUT succeed, the PUT (body = the unpacked
\* payload, path parameter key = the unpacked identity) completes, then the
\* identity is set to the unpacked identity, then Read is invoked exactly
\* once; the result of Create is the result of that Read.
C9_CreateOrder ==
    (op = "Create" /\ WriteSucceeded) =>
        LET n == Last(Writes)
        IN  /\ \A i \in 1..n :
                  /\ i \in Writes
                  /\ trace[i].method = "PUT"
                  /\ trace[i].params = {<<"key", args.key>>}
                  /\ trace[i].body = <<args.repo>>
                  /\ OutAt(i).err = (i < n)
            /\ args.repo = Repo(args.key, args.new)
            /\ Len(trace) >= n + 2
            /\ trace[n + 1] = SetIdEvent(args.key)
            /\ trace[n + 2] = ReadEvent
            /\ Events("Read") = {n + 2}
            /\ pc \in {"read", "idle"}
            /\ pc = "read" => (id = args.key /\ Len(trace) = n + 2)
            /\ pc = "idle" =>
                  /\ Events("ReadReturn") = {Len(trace)}
                  /\ trace[Len(trace)] = ReadReturn(result)
                  /\ Len(trace) > n + 2

C9_Witness ==
    /\ Done("Create")
    /\ WriteSucceeded
    /\ id \in Keys
    /\ Events("Pack") # {}
    /\ result = NoErr

\* C10: when the PUT of Create or the POST of Update ends in an error that
\* no retry resolves, the call returns that error, the identity keeps its
\* prior value, no attach or detach call is issued and Read is not invoked.
C10_WriteErrorAborts ==
    (op \in {"Create", "Update"} /\ WriteFailed) =>
        /\ result = ErrOf(OutAt(Last(Writes)))
        /\ id = pre
        /\ Attaches = {}
        /\ Detaches = {}
        /\ Events("Read") = {}
        /\ Gets = {}
        /\ Events("SetId") = {}
        /\ Last(Writes) = Len(trace)

C10_Witness ==
    /\ Done("Update")
    /\ WriteFailed
    /\ Len(trace) = RetryCount + 1
    /\ result = ErrOf(OutAt(Last(Writes)))


\* the attempts of the main write of Create, Update and Delete
MainWrites == Writes \cup Deletes

\* an attempt of the main write met the merge conflict and a later one
\* succeeded
MergeThenSuccess ==
    \E i \in MainWrites, j \in MainWrites :
        i < j /\ OutAt(i).merge /\ ~OutAt(j).err

\* what the steps that follow a successful main write returned
AfterWriteResult ==
    IF op = "Delete" THEN NoErr
    ELSE IF \E k \in Attaches \cup Detaches : OutAt(k).err
         THEN ErrOf(OutAt(Last(Attaches \cup Detaches)))
         ELSE trace[Len(trace)].ret[1]

\* C11 (as stated): when an attempt of the PUT, POST or DELETE meets the
\* merge conflict and a later attempt succeeds, the operation as a whole
\* returns no error.
C11_RetriedWriteReportsSuccess ==
    (pc = "idle" /\ op \in {"Create", "Update", "Delete"} /\ MergeThenSuccess)
        => result = NoErr

\* C11 (amended): an attempt of the PUT, POST or DELETE that meets the merge
\* conflict with retries left is followed by the same request again; when a
\* later attempt succeeds the write adds no error: Delete returns no error,
\* Create and Update return what their following steps (attach/detach, Read)
\* return.
C11_RetriedWriteAddsNoError ==
    /\ \A i \in MainWrites :
          (OutAt(i).merge /\ i <= RetryCount) =>
              \/ pc = "write" /\ i = Len(trace)
              \/ /\ i + 1 \in MainWrites
                 /\ trace[i + 1].method = trace[i].method
                 /\ trace[i + 1].params = trace[i].params
                 /\ trace[i + 1].body = trace[i].body
    /\ (pc = "idle" /\ op \in {"Create", "Update", "Delete"} /\ MergeThenSuccess)
          => result = AfterWriteResult

C11_Witness ==
    /\ Done("Create")
    /\ MergeThenSuccess
    /\ Cardinality(Writes) = 2
    /\ result = NoErr


\* C12: when every attempt of the PUT, POST or DELETE meets the merge
\* conflict, the attempts never exceed the configured bound and the operation
\* then returns the write failure, not success.
C12_ExhaustedRetryFails ==
    /\ Cardinality(MainWrites) <= RetryCount + 1
    /\ (/\ pc = "idle"
        /\ op \in {"Create", "Update", "Delete"}
        /\ MainWrites # {}
        /\ \A i \in MainWrites : OutAt(i).merge)
       => /\ Cardinality(MainWrites) = RetryCount + 1
          /\ result = ErrOf(OutAt(Last(MainWrites)))


\* C14: an attach or detach call is issued during an Update only; Create,
\* Read, Delete and Import never issue one, whatever project_key is.
C14_ProjectCallsOnlyInUpdate ==
    op # "Update" =>
        /\ Attaches = {}
        /\ Detaches = {}
        /\ pc \notin {"attach", "detach"}

C14_Witness ==
    /\ Done("Create")
    /\ WriteSucceeded
    /\ args.new = "teamA"
    /\ result = NoErr
    /\ Attaches = {}

\* the attach and detach calls of the call
ProjectCalls == Attaches \cup Detaches

\* C16: in an Update whose POST succeeds the calls come in the order POST,
\* attach or detach (if one is issued), Read; when the attach or detach call
\* did not fail Read is invoked exactly once and last and its result is the
\* result of Update; when the attach or detach call fails Read is not invoked.
C16_UpdateOrder ==
    (op = "Update" /\ WriteSucceeded) =>
        LET n == Last(Writes)
            r == IF ProjectCalls = {} THEN n + 2 ELSE n + 3
        IN  /\ \A i \in 1..n : i \in Writes /\ trace[i].method = "POST"
            /\ Writes = 1..n
            /\ trace[n + 1] = SetIdEvent(args.key)
            /\ ProjectCalls \subseteq {n + 2}
            /\ Cardinality(ProjectCalls) <= 1
            /\ Events("Read") \subseteq {r}
            /\ \A g \in Gets : g = r + 1
            /\ (\E k \in ProjectCalls : OutAt(k).err) =>
                  /\ pc = "idle"
                  /\ Events("Read") = {}
                  /\ Gets = {}
                  /\ result = ErrOf(OutAt(n + 2))
            /\ (pc = "idle" /\ \A k \in ProjectCalls : ~OutAt(k).err) =>
                  /\ Events("Read") = {r}
                  /\ Events("ReadReturn") = {Len(trace)}
                  /\ trace[Len(trace)] = ReadReturn(result)

C16_Witness ==
    /\ Done("Update")
    /\ WriteSucceeded
    /\ Attaches # {}
    /\ Events("Pack") # {}
    /\ result = NoErr

\* C17: when the GET of Read fails with anything other than status 400 or
\* 404, Read returns that error as it is, does not invoke Pack and leaves the
\* identity (the key the GET asked for) unchanged.
C17_ReadErrorSurfaced ==
    \A i \in Gets :
        (OutAt(i).err /\ ~Failed400or404(OutAt(i))) =>
            /\ pc = "idle"
            /\ result = ErrOf(OutAt(i))
            /\ Events("Pack") = {}
            /\ trace[i].params = {<<"key", id>>}
            /\ id # ""
            /\ SubSeq(trace, i + 1, Len(trace)) = <<ReadReturn(ErrOf(OutAt(i)))>>

C17_Witness ==
    /\ Done("Read")
    /\ \E i \in Gets : OutAt(i).err /\ ~OutAt(i).resp
    /\ id = pre
    /\ result.kind = "request"

\* C19: Import of an identity K, from no prior local state, sets the identity
\* to K and issues no write request; what it leaves is what Read leaves for
\* the identity K and the same answer of the server, the identity cleared on
\* status 400 or 404 included.
C19_ImportIsRead ==
    op = "Import" =>
        /\ pre \in Keys
        /\ MainWrites = {}
        /\ ProjectCalls = {}
        /\ pc \in {"read", "idle"}
        /\ pc = "read" => (id = pre /\ trace = <<ReadEvent>>)
        /\ pc = "idle" =>
              /\ \E cerr \in BOOLEAN, out \in Outcomes, perr \in BOOLEAN :
                    ReadBody(cerr, out, perr, pre, <<ReadEvent>>)
                        = [id |-> id, result |-> result, trace |-> trace]
              /\ \A i \in Gets :
                    /\ trace[i].params = {<<"key", pre>>}
                    /\ id = IF Failed400or404(OutAt(i)) THEN "" ELSE pre

C19_Witness ==
    /\ Done("Import")
    /\ pre \in Keys
    /\ id = ""
    /\ \E i \in Gets : Failed400or404(OutAt(i))


\* what Update returns when its POST itself fails, for every failure of the
\* POST
PostFailureResults ==
    {UpdateAfterPost(o, pre, pre, args.old, args.new, <<>>).result :
        o \in {x \in Outcomes : x.err}}

\* C15: when the POST of an Update succeeds and the attach or detach call
\* fails, what Update returns differs from everything it returns when the
\* POST itself fails.
C15_ProjectFailureDistinct ==
    (/\ Done("Update")
     /\ WriteSucceeded
     /\ \E k \in ProjectCalls : OutAt(k).err)
    => result \notin PostFailureResults


Heads == Requests("HEAD", RepositoriesEndpoint)

\* what repoExists returned: its boolean and its error
ExistsFound == trace[Len(trace)].ret[1]
ExistsError == trace[Len(trace)].ret[2]

\* C18 (as stated): on the existence check a repository the server reports
\* missing (status 400 or 404) is reported absent and no error is returned.
C18_MissingIsAbsentNoError ==
    (Done("Exists") /\ Failed400or404(OutAt(Last(Heads)))) =>
        /\ ExistsFound = FALSE
        /\ ExistsError = NoErr

\* C18 (amended): on the existence check a repository the server reports
\* missing (status 400 or 404) is reported absent together with the error of
\* the HEAD request, the identity unchanged; a HEAD answered with status 400
\* is repeated while retries are left.
C18_MissingIsAbsentWithError ==
    op = "Exists" =>
        /\ \A i \in Heads :
              (OutAt(i).status = 400 /\ i <= RetryCount) =>
                  (i + 1 \in Heads \/ (pc = "head" /\ i = Len(trace)))
        /\ Cardinality(Heads) <= RetryCount + 1
        /\ id = pre
        /\ (pc = "idle" /\ Failed400or404(OutAt(Last(Heads)))) =>
              /\ ExistsFound = FALSE
              /\ ExistsError = ErrOf(OutAt(Last(Heads)))
              /\ result = ExistsError

C18_Witness ==
    /\ Done("Exists")
    /\ OutAt(Last(Heads)).status = 400
    /\ Cardinality(Heads) = RetryCount + 1
    /\ ExistsFound = FALSE
    /\ ExistsError # NoErr


\* the versions of Versions at or after 7.53.1
AtOrAfter7_53_1 == {<<7, 53, 1>>, <<7, 53, 2>>, <<7, 54, 0>>, <<8, 0, 0>>}

\* C20: ProjectEnvironmentsDiff with a server version at or after 7.53.1
\* rejects every project_environments set of more than one value and accepts
\* every set of exactly one value, a custom value included.
C20_OneEnvironmentFrom7_53_1 ==
    (Done("Diff") /\ args.version \in AtOrAfter7_53_1) =>
        /\ Cardinality(args.envs) > 1 => result # NoErr
        /\ Cardinality(args.envs) = 1 => result = NoErr
        /\ id = pre

C20_Witness ==
    /\ Done("Diff")
    /\ args.version = <<7, 53, 1>>
    /\ args.envs = {"QA"}
    /\ result = NoErr

\* the versions of Versions before 7.53.1
Before7_53_1 == {<<6, 99, 9>>, <<7, 49, 8>>, <<7, 53, 0>>}

\* C21: ProjectEnvironmentsDiff with a server version before 7.53.1 accepts
\* a project_environments set exactly when every value of it is in the
\* allow-list {"DEV", "PROD"}: the set {DEV, PROD} is accepted, a set with a
\* value outside the allow-list is rejected.
C21_AllowListBefore7_53_1 ==
    (Done("Diff") /\ args.version \in Before7_53_1) =>
        /\ result = NoErr <=> args.envs \subseteq {"DEV", "PROD"}
        /\ args.envs = {"DEV", "PROD"} => result = NoErr
        /\ (\E e \in args.envs : e \notin {"DEV", "PROD"}) => result = NotAllowedErr
        /\ id = pre

C21_Witness ==
    /\ Done("Diff")
    /\ args.version = <<7, 53, 0>>
    /\ args.envs = {"DEV", "PROD"}
    /\ result = NoErr

\* the table marks repositoryType as supported for packageType
MarkedSupported(repositoryType, packageType) ==
    /\ packageType \in DOMAIN RepoLayoutTable
    /\ repositoryType \in DOMAIN RepoLayoutTable[packageType].SupportedRepoTypes
    /\ RepoLayoutTable[packageType].SupportedRepoTypes[repositoryType]

\* C22: GetDefaultRepoLayoutRef(repositoryType, packageType) returns the
\* table's layout of packageType and no error exactly when the table marks
\* repositoryType true for packageType; for every other pair (package type
\* absent, repository type absent, marked false) it returns an error that
\* names both inputs; it issues no request and the table is never changed.
C22_DefaultLayoutLookup ==
    /\ defaultRepoLayoutMap = RepoLayoutTable
    /\ Done("GetDefaultRepoLayoutRef") =>
          LET r == args.repositoryType
              p == args.packageType
              ret == trace[Len(trace)].ret
          IN  /\ Len(trace) = 1
              /\ trace[1].method = "LayoutReturn"
              /\ trace[1].out = <<>>
              /\ IF MarkedSupported(r, p)
                 THEN ret = <<RepoLayoutTable[p].RepoLayoutRef, NoErr>>
                 ELSE /\ ret[2] # NoErr
                      /\ ret[2].names = <<r, p>>
              /\ result = ret[2]
              /\ id = pre

C22_Witness ==
    /\ Done("GetDefaultRepoLayoutRef")
    /\ args.repositoryType = "local"
    /\ args.packageType = "p2"
    /\ trace[1].ret = <<"", LayoutNotFoundErr("local", "p2")>>
    /\ defaultRepoLayoutMap = RepoLayoutTable

\* A request the transport client has sent ends: with a response, or with
\* the error of the transport.
Respond ==
    \/ \E out \in Outcomes : Put(out)
    \/ \E cerr \in BOOLEAN, out \in Outcomes, perr \in BOOLEAN :
          Get(cerr, out, perr)
    \/ \E out \in Outcomes : Post(out)
    \/ \E out \in Outcomes : Attach(out)
    \/ \E out \in Outcomes : Detach(out)
    \/ \E out \in Outcomes : DeleteRequest(out)
    \/ \E out \in Outcomes : HeadRequest(out)

\* the calls that send requests
NextLive ==
    \/ \E key \in Keys, project_key \in ProjectKeys, uerr \in BOOLEAN :
          Create(key, project_key, uerr)
    \/ Read
    \/ \E key \in Keys : Import(key)
    \/ \E old \in ProjectKeys, new \in ProjectKeys, uerr \in BOOLEAN :
          Update(old, new, uerr)
    \/ Delete
    \/ Exists
    \/ Respond

SpecLive == Init /\ [][NextLive]_vars /\ WF_vars(Respond)

LifecycleOps == {"Create", "Read", "Update", "Delete", "Import"}

\* number of requests the running / last call has sent
RequestCount == Cardinality({i \in DOMAIN trace : trace[i].out # <<>>})

C29_CreateIdentity ==
    Done("Create") =>
        /\ result = NoErr =>
              /\ id \in {args.key, ""}
              /\ args.key # ""
              /\ id = "" =>
                    /\ Gets # {}
                    /\ OutAt(Last(Gets)).resp
                    /\ OutAt(Last(Gets)).status \in {400, 404}
              /\ id = args.key => (Gets # {} /\ ~OutAt(Last(Gets)).err)
        /\ (Writes # {} /\ OutAt(Last(Writes)).err) =>
              /\ id = ""
              /\ result = ErrOf(OutAt(Last(Writes)))

C29_Witness ==
    /\ Done("Create")
    /\ result = NoErr
    /\ args.key = "k2"
    /\ id = ""
    /\ OutAt(Last(Gets)).status = 400

----------------------------------------------------------------------------
(* Two writers against one identity *)

\* Two engine calls, each with a ResourceData of its own, write the same
\* repository.  In this specification every variable is a function of the
\* writer: id[w] is the identity in the ResourceData of writer w, and so on.
\* A write is in flight at the server from RaceSend to RaceRespond.
Writers == {1, 2}

RaceKey == "k1"

\* project_key values of the racing declarations
RaceProjectKeys == {defaultProjectKey, "teamA"}

OkOutcome == [err |-> FALSE, resp |-> TRUE, status |-> 200, merge |-> FALSE]

\* The answers of the server to the write of w: it rejects a write with the
\* merge conflict only while the write of another writer to the same
\* repository is in flight, with a bad-request or a server-error status; it
\* answers every other request with success.
ServerAnswers(w) ==
    {OkOutcome} \cup
    (IF \E v \in Writers \ {w} : pc[v] = "sent"
     THEN {o \in Outcomes : o.merge /\ o.status \in {StatusBadRequest, 500}}
     ELSE {})

InitRace ==
    /\ id = [w \in Writers |-> ""]
    /\ pc = [w \in Writers |-> "idle"]
    /\ op = [w \in Writers |-> "none"]
    /\ pre = [w \in Writers |-> ""]
    /\ args = [w \in Writers |-> NoArgs]
    /\ attempt = [w \in Writers |-> 0]
    /\ trace = [w \in Writers |-> <<>>]
    /\ result = [w \in Writers |-> NoErr]
    /\ defaultRepoLayoutMap = RepoLayoutTable
    /\ remote = <<>>
    /\ data = <<>>

\* Writer w enters MkRepoCreate (new ResourceData) or MkRepoUpdate (the
\* ResourceData of the repository, so far in the default project) and
\* unpacks its declaration.
RaceStart(w, o, new) ==
    /\ pc[w] = "idle"
    /\ op[w] = "none"
    /\ LET cur == IF o = "Create" THEN "" ELSE RaceKey
           u == Unpack(RaceKey, new)
       IN  /\ op' = [op EXCEPT ![w] = o]
           /\ pre' = [pre EXCEPT ![w] = cur]
           /\ id' = [id EXCEPT ![w] = cur]
           /\ args' = [args EXCEPT ![w] =
                          [uerr |-> FALSE, key |-> u.key, repo |-> u.repo,
                           old |-> IF o = "Create" THEN ""
                                   ELSE defaultProjectKey,
                           new |-> new]]
    /\ attempt' = [attempt EXCEPT ![w] = 1]
    /\ trace' = [trace EXCEPT ![w] = <<>>]
    /\ pc' = [pc EXCEPT ![w] = "write"]
    /\ result' = [result EXCEPT ![w] = Running]
    /\ UNCHANGED <<defaultRepoLayoutMap, remote, data>>

\* The PUT or POST of w reaches the server.
RaceSend(w) ==
    /\ pc[w] = "write"
    /\ pc' = [pc EXCEPT ![w] = "sent"]
    /\ UNCHANGED <<id, op, pre, args, attempt, trace, result>>
    /\ UNCHANGED <<defaultRepoLayoutMap, remote, data>>

\* The answer to the PUT or POST of w comes back.
RaceRespond(w, out) ==
    /\ pc[w] = "sent"
    /\ out \in ServerAnswers(w)
    /\ LET create == op[w] = "Create"
           tr == Append(trace[w],
                        Request(IF create THEN "PUT" ELSE "POST",
                                RepositoriesEndpoint,
                                {<<"key", IF create THEN args[w].key ELSE id[w]>>},
                                <<args[w].repo>>, out))
       IN  IF NeedsRetry(out, attempt[w])
           THEN /\ attempt' = [attempt EXCEPT ![w] = attempt[w] + 1]
                /\ trace' = [trace EXCEPT ![w] = tr]
                /\ pc' = [pc EXCEPT ![w] = "write"]
                /\ UNCHANGED <<id, result>>
           ELSE LET r == IF create
                         THEN CreateAfterPut(out, args[w].key, id[w], tr)
                         ELSE UpdateAfterPost(out, args[w].key, id[w],
                                              args[w].old, args[w].new, tr)
                IN  /\ id' = [id EXCEPT ![w] = r.id]
                    /\ pc' = [pc EXCEPT ![w] = r.pc]
                    /\ result' = [result EXCEPT ![w] = r.result]
                    /\ trace' = [trace EXCEPT ![w] = r.trace]
                    /\ UNCHANGED attempt
    /\ UNCHANGED <<op, pre, args>>
    /\ UNCHANGED <<defaultRepoLayoutMap, remote, data>>

\* The attach or detach call of the Update of w.
RaceProject(w) ==
    /\ pc[w] \in {"attach", "detach"}
    /\ LET tr == Append(trace[w],
                        IF pc[w] = "attach"
                        THEN Request("PUT", AttachEndpoint,
                                     {<<"repoKey", args[w].key>>,
                                      <<"projectKey", args[w].new>>},
                                     <<>>, OkOutcome)
                        ELSE Request("DELETE", DetachEndpoint,
                                     {<<"repoKey", args[w].key>>},
                                     <<>>, OkOutcome))
           r == UpdateAfterProject(OkOutcome, tr)
       IN  /\ pc' = [pc EXCEPT ![w] = r.pc]
           /\ result' = [result EXCEPT ![w] = r.result]
           /\ trace' = [trace EXCEPT ![w] = r.trace]
    /\ UNCHANGED <<id, op, pre, args, attempt>>
    /\ UNCHANGED <<defaultRepoLayoutMap, remote, data>>

\* The read that ends the Create or Update of w.
RaceRead(w) ==
    /\ pc[w] = "read"
    /\ LET r == ReadBody(FALSE, OkOutcome, FALSE, id[w], trace[w])
       IN  /\ id' = [id EXCEPT ![w] = r.id]
           /\ result' = [result EXCEPT ![w] = r.result]
           /\ trace' = [trace EXCEPT ![w] = r.trace]
    /\ pc' = [pc EXCEPT ![w] = "idle"]
    /\ UNCHANGED <<op, pre, args, attempt>>
    /\ UNCHANGED <<defaultRepoLayoutMap, remote, data>>

RaceStep(w) ==
    \/ \E o \in {"Create", "Update"}, new \in RaceProjectKeys :
          RaceStart(w, o, new)
    \/ RaceSend(w)
    \/ \E out \in Outcomes : RaceRespond(w, out)
    \/ RaceProject(w)
    \/ RaceRead(w)

NextRace == \E w \in Writers : RaceStep(w)

\* A handler that has been entered runs on: the engine calls it
\* synchronously and the transport answers every request.
SpecRace ==
    InitRace /\ [][NextRace]_vars /\ \A w \in Writers : WF_vars(RaceStep(w))


\* the attempts of the PUT or POST of writer w, and those the server rejected
\* with the merge conflict
RaceWrites(w) ==
    {i \in DOMAIN trace[w] :
        /\ trace[w][i].url = RepositoriesEndpoint
        /\ trace[w][i].method \in {"PUT", "POST"}}
RaceConflicts(w) == {i \in RaceWrites(w) : trace[w][i].out[1].merge}

RaceDone(w) == pc[w] = "idle" /\ op[w] # "none"

\* what belongs to writer w alone
RaceLocal(w) ==
    <<id[w], pc[w], op[w], pre[w], args[w], attempt[w], trace[w], result[w]>>

\* a rejected write is sent again while retries are left, and a writer that
\* met no more conflicts than it has retries ends with success
RaceRetrySucceeds ==
    \A w \in Writers :
        /\ Cardinality(RaceWrites(w)) <= RetryCount + 1
        /\ \A i \in RaceConflicts(w) :
              i <= RetryCount =>
                  \/ i + 1 \in RaceWrites(w)
                  \/ i = Len(trace[w]) /\ pc[w] \in {"write", "sent"}
        /\ (RaceDone(w) /\ Cardinality(RaceConflicts(w)) <= RetryCount) =>
              /\ result[w] = NoErr
              /\ id[w] = RaceKey

\* a step changes what belongs to one writer only
RaceNoSharedState ==
    \A w \in Writers, v \in Writers :
        (w # v /\ RaceLocal(w)' # RaceLocal(w)) => RaceLocal(v)' = RaceLocal(v)

----------------------------------------------------------------------------
(* The validator of the key field *)

\* longest key the validator is applied to
MaxKeyLen == 2

Digits == {"0", "1", "2", "3", "4", "5", "6", "7", "8", "9"}

\* the grave accent (U+0060), which a string of this language cannot hold
GraveAccent == "U+0060"

\* the characters of the argument of StringDoesNotContainAny
ForbiddenChars ==
    {" ", "!", "@", "#", "$", "%", "^", "&", "*", "(", ")", "+", "=", "{",
     "}", "[", "]", ":", ";", "<", ">", ",", "/", "?", "~", GraveAccent, "|", "\\"}

\* characters in none of the two sets; "\n" is the one "." does not match
OtherChars == {"a", "Z", "-", "_", ".", "\t", "\n"}

Chars == Digits \cup ForbiddenChars \cup OtherChars

\* a key is the sequence of its characters
KeyStrings == UNION {[1..n -> Chars] : n \in 0..MaxKeyLen}

StartsWithNumberErr == "repo key cannot start with a number"
ContainsAnyErr == "expected value to not contain any of the characters"

ValidateArgs(key) ==
    [uerr |-> FALSE, key |-> key, repo |-> NoRepo, old |-> "", new |-> ""]

\* regexp.MustCompile("^[0-9].*").MatchString(s): a digit at the start, then
\* any number of characters other than the newline
MatchesLeadingDigit(s) ==
    /\ Len(s) >= 1
    /\ s[1] \in Digits
    /\ \E n \in 0..(Len(s) - 1) : \A i \in 2..(n + 1) : s[i] # "\n"

\* strings.ContainsAny(s, chars)
ContainsAny(s, chars) == \E i \in 1..Len(s) : s[i] \in chars

StringDoesNotMatch(s) ==
    IF MatchesLeadingDigit(s) THEN {StartsWithNumberErr} ELSE {}

StringDoesNotContainAny(s) ==
    IF ContainsAny(s, ForbiddenChars) THEN {ContainsAnyErr} ELSE {}

RepoKeyValidatorFirstOnly(s) == StringDoesNotMatch(s)

\* validation.All: the errors of both validators
RepoKeyValidator(s) == StringDoesNotMatch(s) \cup StringDoesNotContainAny(s)

\* The schema is about to validate the key of a declaration.
InitValidate ==
    /\ id = ""
    /\ pc = "validate"
    /\ op = "ValidateKey"
    /\ pre = ""
    /\ args \in {ValidateArgs(key) : key \in KeyStrings}
    /\ attempt = 0
    /\ trace = <<>>
    /\ result = {}
    /\ defaultRepoLayoutMap = RepoLayoutTable
    /\ remote = <<>>
    /\ data = <<>>

\* ValidateFunc of the key field
ValidateKey ==
    /\ pc = "validate"
    /\ result' = RepoKeyValidator(args.key)
    /\ pc' = "idle"
    /\ UNCHANGED <<id, op, pre, args, attempt, trace, defaultRepoLayoutMap,
                   remote, data>>

NextValidate == ValidateKey

SpecValidate == InitValidate /\ [][NextValidate]_vars

\* the forbidden set: space and ! @ # $ % ^ & * ( ) + = { } [ ] : ; < > , / ?
\* ~ (grave accent) | \
C23_Forbidden ==
    {" ", "!", "@", "#", "$", "%", "^", "&", "*", "(", ")", "+", "=", "{",
     "}", "[", "]", ":", ";", "<", ">", ",", "/", "?", "~", GraveAccent, "|", "\\"}

----------------------------------------------------------------------------
(* Create and Read of the generic local repository, payload by payload *)

\* the value of a field the declaration leaves out
Null == "(null)"

\* package type of the resource ResourceArtifactoryLocalGenericRepository
\* is built for
RepoType == "generic"

\* Declarations: key is required; every other field is set or left out.
Declarations ==
    [key : Keys,
     project_key : {Null, "teamA"},
     description : {Null, "", "text"},
     includes_pattern : {Null, "a/*"},
     repo_layout_ref : {Null, "custom-layout"}]

\* the fields a declaration sets explicitly
ExplicitFields(D) == {f \in DOMAIN D : D[f] # Null}

\* Default / DefaultFunc of the schema of the generic local repository
SchemaDefault(table, f) ==
    CASE f = "project_key" -> "default"
      [] f = "includes_pattern" -> "**/*"
      [] f = "repo_layout_ref" ->
            GetDefaultRepoLayoutRef(table, "local", RepoType).value
      [] OTHER -> ""

\* d.Get(f) for a new resource: the declared value or the default
PlannedValue(table, D, f) ==
    IF D[f] = Null THEN SchemaDefault(table, f) ELSE D[f]

\* the fields of d when Create is entered; package_type is computed
Planned(table, D) ==
    [key |-> D.key,
     project_key |-> PlannedValue(table, D, "project_key"),
     package_type |-> "",
     description |-> PlannedValue(table, D, "description"),
     includes_pattern |-> PlannedValue(table, D, "includes_pattern"),
     repo_layout_ref |-> PlannedValue(table, D, "repo_layout_ref")]

\* UnpackBaseRepo(rclassType, data, packageType): the wire payload
UnpackBaseRepo(rclassType, d, packageType) ==
    [rclass |-> rclassType,
     key |-> d.key,
     projectKey |-> d.project_key,
     packageType |-> packageType,
     description |-> d.description,
     includesPattern |-> d.includes_pattern,
     repoLayoutRef |-> d.repo_layout_ref]

\* unpack of ResourceArtifactoryLocalGenericRepository: repo, repo.Id(), nil
UnpackGeneric(d) ==
    LET repo == UnpackBaseRepo("local", d, RepoType)
    IN  [repo |-> repo, key |-> repo.key, uerr |-> FALSE]

\* constructor of ResourceArtifactoryLocalGenericRepository
Constructor ==
    [rclass |-> "local", key |-> "", projectKey |-> "",
     packageType |-> RepoType,
     description |-> "", includesPattern |-> "", repoLayoutRef |-> ""]

\* SetResult(repo): the fields of the response body replace those of repo
Decode(repo, body) ==
    [f \in DOMAIN repo |-> IF f \in DOMAIN body THEN body[f] ELSE repo[f]]

\* packer.Default(genericRepoSchema): the fields of the schema, from the
\* payload
PackDefault(repo) ==
    [key |-> repo.key,
     project_key |-> repo.projectKey,
     package_type |-> repo.packageType,
     description |-> repo.description,
     includes_pattern |-> repo.includesPattern,
     repo_layout_ref |-> repo.repoLayoutRef]


\* The remote server of the round trip stores the body of a PUT it accepts
\* under the key of the path, unchanged, and answers a GET of a stored key
\* with that payload.
PathParam(req, name) == (CHOOSE p \in req.params : p[1] = name)[2]

Stored(req) == IF req.body = <<>> THEN <<>> ELSE req.body[1]

Store(rem, req) ==
    LET key == PathParam(req, "key")
    IN  [k \in DOMAIN rem \cup {key} |->
            IF k = key THEN Stored(req) ELSE rem[k]]

ConflictOutcome ==
    [err |-> TRUE, resp |-> TRUE, status |-> StatusBadRequest, merge |-> TRUE]
FailureOutcome == [err |-> TRUE, resp |-> TRUE, status |-> 500, merge |-> FALSE]
NotFoundOutcome ==
    [err |-> TRUE, resp |-> TRUE, status |-> StatusNotFound, merge |-> FALSE]

PutAnswers == {OkOutcome, ConflictOutcome, FailureOutcome}

GetAnswers(rem, key) ==
    IF key \in DOMAIN rem THEN {OkOutcome, FailureOutcome}
    ELSE {NotFoundOutcome, FailureOutcome}

\* a payload an earlier apply left on the server
StalePayload ==
    [rclass |-> "local", key |-> "k1", projectKey |-> "teamB",
     packageType |-> RepoType, description |-> "stale",
     includesPattern |-> "old/*", repoLayoutRef |-> "simple-default"]

InitRoundTrip ==
    /\ id = ""
    /\ pc = "idle"
    /\ op = "none"
    /\ pre = ""
    /\ args = NoArgs
    /\ attempt = 0
    /\ trace = <<>>
    /\ result = NoErr
    /\ defaultRepoLayoutMap = RepoLayoutTable
    /\ remote \in {<<>>, [k \in {"k1"} |-> StalePayload]}
    /\ data = <<>>

\* MkRepoCreate is entered with the planned fields of declaration D.
RoundTripCreate(D) ==
    /\ pc = "idle"
    /\ op = "none"
    /\ LET d == Planned(defaultRepoLayoutMap, D)
           u == UnpackGeneric(d)
           r == CreateUnpacked(u.uerr)
       IN  /\ data' = d
           /\ args' = [uerr |-> u.uerr, key |-> u.key, repo |-> u.repo,
                       old |-> "", new |-> d.project_key, D |-> D]
           /\ attempt' = IF r.pc = "write" THEN 1 ELSE 0
           /\ pc' = r.pc
           /\ result' = r.result
    /\ op' = "Create"
    /\ pre' = ""
    /\ id' = ""
    /\ trace' = <<>>
    /\ UNCHANGED <<defaultRepoLayoutMap, remote>>

\* One attempt of the PUT, answered by the storing server.
RoundTripPut(out) ==
    /\ pc = "write"
    /\ out \in PutAnswers
    /\ LET req == CreateRequest(args.key, args.repo, out)
           tr == Append(trace, req)
       IN  /\ remote' = IF out.err THEN remote ELSE Store(remote, req)
           /\ IF NeedsRetry(out, attempt)
              THEN /\ attempt' = attempt + 1
                   /\ trace' = tr
                   /\ UNCHANGED <<id, pc, result>>
              ELSE LET r == CreateAfterPut(out, args.key, id, tr)
                   IN  /\ id' = r.id
                       /\ pc' = r.pc
                       /\ result' = r.result
                       /\ trace' = r.trace
                       /\ UNCHANGED attempt
    /\ UNCHANGED <<op, pre, args, defaultRepoLayoutMap, data>>

\* MkRepoRead at the end of Create: construct, GET into the constructed
\* payload, pack.
RoundTripGet(out) ==
    /\ pc = "read"
    /\ out \in GetAnswers(remote, id)
    /\ LET r == ReadBody(FALSE, out, FALSE, id, trace)
       IN  /\ id' = r.id
           /\ result' = r.result
           /\ trace' = r.trace
           /\ data' = IF out.err THEN data
                      ELSE PackDefault(Decode(Constructor, remote[id]))
    /\ pc' = "idle"
    /\ UNCHANGED <<op, pre, args, attempt, defaultRepoLayoutMap, remote>>

NextRoundTrip ==
    \/ \E D \in Declarations : RoundTripCreate(D)
    \/ \E out \in Outcomes : RoundTripPut(out)
    \/ \E out \in Outcomes : RoundTripGet(out)

SpecRoundTrip == InitRoundTrip /\ [][NextRoundTrip]_vars

----------------------------------------------------------------------------
(* The reset of a field the remote API cannot unset *)

\* A string is the sequence of its parts; the empty string has none.
EmptyString == <<>>

SentinelPrefix == "non-existant-value-"

\* values testutil.RandomInt() can give, as decimal numerals
RandomInts == {"0", "7", "42", "2147483647"}

\* fmt.Sprintf("non-existant-value-%d", n)
Sprintf(n) == <<SentinelPrefix, n>>

\* values of a string field: unset or empty, two layouts, and a sentinel an
\* earlier apply has left
FieldValues == {EmptyString, <<"simple-default">>, <<"maven-2-default">>,
                Sprintf("7")}

ResetKeys == {"repo_layout_ref", "remote_repo_layout_ref"}

\* d: the prior state and the planned values of the fields
ResourceDatas == [old : [ResetKeys -> FieldValues], new : [ResetKeys -> FieldValues]]

\* d.GetString(key, false)
GetString(d, key) == d.new[key]

\* d.HasChange(key)
HasChange(d, key) == d.old[key] # d.new[key]

HandleResetWithNonExistentValueIgnoresChange(d, key, n) ==
    LET value == GetString(d, key)
    IN  IF value = EmptyString THEN Sprintf(n) ELSE value

HandleResetWithNonExistentValue(d, key, n) ==
    LET value == GetString(d, key)
    IN  IF value = EmptyString /\ HasChange(d, key) THEN Sprintf(n) ELSE value

InitReset ==
    /\ id = ""
    /\ pc = "reset"
    /\ op = "HandleReset"
    /\ pre = ""
    /\ args \in [d : ResourceDatas, key : ResetKeys]
    /\ attempt = 0
    /\ trace = <<>>
    /\ result = EmptyString
    /\ defaultRepoLayoutMap = RepoLayoutTable
    /\ remote = <<>>
    /\ data = <<>>

\* one call of HandleResetWithNonExistentValue(d, key); n is the random
\* number it draws
HandleReset(n) ==
    /\ pc = "reset"
    /\ result' = HandleResetWithNonExistentValue(args.d, args.key, n)
    /\ pc' = "idle"
    /\ UNCHANGED <<id, op, pre, args, attempt, trace, defaultRepoLayoutMap,
                   remote, data>>

NextReset == \E n \in RandomInts : HandleReset(n)

SpecReset == InitReset /\ [][NextReset]_vars

----------------------------------------------------------------------------
(* The trusted (distribution public) key resource *)

DistributionPublicKeysAPIEndPoint == "artifactory/api/security/keys/trusted"

\* key ids of the server; a payload without kid decodes to ""
KeyIds == {"kid1", "kid2", "kid3"}
ReturnedKeyIds == KeyIds \cup {""}

\* data.Keys of a list response: the key ids of up to two listed keys
KeyLists == {<<>>} \cup {<<a>> : a \in KeyIds} \cup {<<a, b>> : a \in KeyIds, b \in KeyIds}

\* What a request of this resource gives back: the error of the call, or a
\* response whose status resp.IsError() looks at.
KeyOutcomes ==
    {o \in Outcomes : ~o.merge}
    \cup {[err |-> FALSE, resp |-> TRUE, status |-> s, merge |-> FALSE] :
            s \in {StatusBadRequest, StatusNotFound, 500}}

\* resp.IsError(): status above 399
IsError(out) == out.resp /\ out.status > 399

StatusErr(kind, out) == Diag(kind, TRUE, out.status, FALSE)

KeyArgs(kid, keys) ==
    [uerr |-> FALSE, key |-> "", repo |-> NoRepo, old |-> "", new |-> "",
     kid |-> kid, keys |-> keys]

\* resourceDistributionPublicKeyCreate after the POST
KeyCreateAfterPost(out, kid, perr, cur) ==
    IF out.err THEN [id |-> cur, result |-> ErrOf(out)]
    ELSE IF IsError(out)
         THEN [id |-> cur, result |-> StatusErr("unable to add key", out)]
         ELSE [id |-> kid, result |-> IF perr THEN PackErr ELSE NoErr]

KeyReadAfterGetAbsentOnStatus(out, keys, perr, cur) ==
    IF out.resp /\ out.status \in {StatusBadRequest, StatusNotFound}
    THEN [id |-> "", result |-> NoErr]
    ELSE IF out.err THEN [id |-> cur, result |-> ErrOf(out)]
    ELSE IF IsError(out)
         THEN [id |-> cur, result |-> StatusErr("unable to read key", out)]
         ELSE IF \E i \in DOMAIN keys : keys[i] = cur
              THEN [id |-> cur, result |-> IF perr THEN PackErr ELSE NoErr]
              ELSE [id |-> "", result |-> NoErr]

\* resourceDistributionPublicKeyRead after the GET of the list
KeyReadAfterGet(out, keys, perr, cur) ==
    IF out.err THEN [id |-> cur, result |-> ErrOf(out)]
    ELSE IF IsError(out)
         THEN [id |-> cur, result |-> StatusErr("unable to read key", out)]
         ELSE IF \E i \in DOMAIN keys : keys[i] = cur
              THEN [id |-> cur, result |-> IF perr THEN PackErr ELSE NoErr]
              ELSE [id |-> "", result |-> NoErr]

KeyDeleteAfterAbsentIsDeleted(out, cur) ==
    IF out.resp /\ out.status \in {StatusBadRequest, StatusNotFound}
    THEN [id |-> "", result |-> NoErr]
    ELSE IF out.err THEN [id |-> cur, result |-> ErrOf(out)]
    ELSE IF IsError(out)
         THEN [id |-> cur, result |-> StatusErr("unable to delete key", out)]
         ELSE [id |-> "", result |-> NoErr]

\* resourceDistributionPublictedKeyDelete after the DELETE
KeyDeleteAfter(out, cur) ==
    IF out.err THEN [id |-> cur, result |-> ErrOf(out)]
    ELSE IF IsError(out)
         THEN [id |-> cur, result |-> StatusErr("unable to delete key", out)]
         ELSE [id |-> "", result |-> NoErr]


InitKey ==
    /\ id = ""
    /\ pc = "idle"
    /\ op = "none"
    /\ pre = ""
    /\ args = KeyArgs("", <<>>)
    /\ attempt = 0
    /\ trace = <<>>
    /\ result = NoErr
    /\ defaultRepoLayoutMap = RepoLayoutTable
    /\ remote = <<>>
    /\ data = <<>>

\* the POST, DELETE or GET went through and the status is no error
KeySucceeded(out) == ~out.err /\ ~IsError(out)

\* Create of a key that is not in the state.
KeyCreate ==
    /\ pc = "idle"
    /\ id = ""
    /\ op' = "KeyCreate"
    /\ pre' = ""
    /\ args' = KeyArgs("", <<>>)
    /\ trace' = <<>>
    /\ pc' = "keypost"
    /\ result' = Running
    /\ UNCHANGED <<id, attempt, defaultRepoLayoutMap, remote, data>>

\* The POST of the key; kid is the key id of the payload the server returns.
KeyPost(out, kid, perr) ==
    /\ pc = "keypost"
    /\ LET r == KeyCreateAfterPost(out, kid, perr, id)
           post == Request("POST", DistributionPublicKeysAPIEndPoint, {},
                           <<>>, out)
       IN  /\ id' = r.id
           /\ result' = r.result
           /\ args' = KeyArgs(IF KeySucceeded(out) THEN kid ELSE "", <<>>)
           /\ trace' = IF KeySucceeded(out)
                       THEN <<post, SetIdEvent(kid), PackEvent>>
                       ELSE <<post>>
    /\ pc' = "idle"
    /\ UNCHANGED <<op, pre, attempt, defaultRepoLayoutMap, remote, data>>

\* Read of a key of the state.
KeyRead ==
    /\ pc = "idle"
    /\ id # ""
    /\ op' = "KeyRead"
    /\ pre' = id
    /\ args' = KeyArgs("", <<>>)
    /\ trace' = <<>>
    /\ pc' = "keyget"
    /\ result' = Running
    /\ UNCHANGED <<id, attempt, defaultRepoLayoutMap, remote, data>>

\* Import: the importer passes the given id through, then Read runs.
KeyImport(kid) ==
    /\ pc = "idle"
    /\ id = ""
    /\ op' = "KeyImport"
    /\ id' = kid
    /\ pre' = kid
    /\ args' = KeyArgs("", <<>>)
    /\ trace' = <<>>
    /\ pc' = "keyget"
    /\ result' = Running
    /\ UNCHANGED <<attempt, defaultRepoLayoutMap, remote, data>>

\* The GET of the list of keys; keys are the key ids the server lists.
KeyGet(out, keys, perr) ==
    /\ pc = "keyget"
    /\ LET r == KeyReadAfterGet(out, keys, perr, id)
       IN  /\ id' = r.id
           /\ result' = r.result
    /\ args' = KeyArgs("", IF KeySucceeded(out) THEN keys ELSE <<>>)
    /\ trace' = <<Request("GET", DistributionPublicKeysAPIEndPoint, {},
                          <<>>, out)>>
    /\ pc' = "idle"
    /\ UNCHANGED <<op, pre, attempt, defaultRepoLayoutMap, remote, data>>

\* Delete of a key of the state.
KeyDelete ==
    /\ pc = "idle"
    /\ id # ""
    /\ op' = "KeyDelete"
    /\ pre' = id
    /\ args' = KeyArgs("", <<>>)
    /\ trace' = <<>>
    /\ pc' = "keydelete"
    /\ result' = Running
    /\ UNCHANGED <<id, attempt, defaultRepoLayoutMap, remote, data>>

\* The DELETE of endpoint/id.
KeyDeleteRequest(out) ==
    /\ pc = "keydelete"
    /\ LET r == KeyDeleteAfter(out, id)
       IN  /\ id' = r.id
           /\ result' = r.result
    /\ trace' = <<Request("DELETE", DistributionPublicKeysAPIEndPoint,
                          {<<"id", id>>}, <<>>, out)>>
    /\ pc' = "idle"
    /\ UNCHANGED <<op, pre, args, attempt, defaultRepoLayoutMap, remote, data>>

NextKey ==
    \/ KeyCreate
    \/ \E out \in KeyOutcomes, kid \in ReturnedKeyIds, perr \in BOOLEAN :
          KeyPost(out, kid, perr)
    \/ KeyRead
    \/ \E kid \in KeyIds : KeyImport(kid)
    \/ \E out \in KeyOutcomes, keys \in KeyLists, perr \in BOOLEAN :
          KeyGet(out, keys, perr)
    \/ KeyDelete
    \/ \E out \in KeyOutcomes : KeyDeleteRequest(out)

SpecKey == InitKey /\ [][NextKey]_vars

\* the outcome of the one request of the last call of this resource
KeyOut == trace[1].out[1]

\* C27: Read of the trusted key.  When the GET of the list succeeds and no
\* listed key has the local identity as key id, Read clears the identity and
\* returns no error; when a listed key matches, the identity is unchanged;
\* when the GET fails or has an error status (400 and 404 included), Read
\* returns an error and the identity is unchanged.
C27_KeyRead ==
    Done("KeyRead") =>
        LET ok == ~KeyOut.err /\ KeyOut.status < 400
            listed == \E i \in DOMAIN args.keys : args.keys[i] = pre
        IN  /\ (ok /\ ~listed) => (id = "" /\ result = NoErr)
            /\ (ok /\ listed) => id = pre
            /\ ~ok => (result # NoErr /\ id = pre)

C27_Witness ==
    /\ Done("KeyRead")
    /\ pre = "kid1"
    /\ KeyOut.status = 200
    /\ args.keys = <<"kid2">>
    /\ id = ""
    /\ result = NoErr

\* C28: Create and Delete of the trusted key.  Create sets the identity to
\* the key id the server returns only when the POST succeeds and leaves it
\* unset when the POST fails or has an error status; Delete clears the
\* identity only when the DELETE succeeds and returns an error, with the
\* identity unchanged, on every failure and error status (404 included).
C28_KeyCreateDelete ==
    LET ok == ~KeyOut.err /\ KeyOut.status < 400
    IN  /\ Done("KeyCreate") =>
              /\ ok => id = args.kid
              /\ ~ok => (id = "" /\ result # NoErr)
        /\ Done("KeyDelete") =>
              /\ ok => (id = "" /\ result = NoErr)
              /\ ~ok => (id = pre /\ id # "" /\ result # NoErr)

C28_Witness ==
    /\ Done("KeyDelete")
    /\ KeyOut.status = 404
    /\ id = "kid2"
    /\ result # NoErr

====
